---- MODULE Spec2Model ----
(***************************************************************************)
(* Model of openVO's OAK_Camera (src/src/openVO/oakd/camera.py).           *)
(*                                                                         *)
(* Threads: the controller (constructs the camera, calls start()/stop()),  *)
(* the acquisition worker (_target), and callers of compute_3d().  The     *)
(* device (depthai) is outside the repository: what it answers to a call   *)
(* is a nondeterministic choice among the outcomes the call can have.      *)
(* In particular _target asks for queues named after the keys of _nodes,   *)
(* three of which ("stereo", "mono_left", "mono_right") name no declared   *)
(* stream: the device may refuse them (WorkerOpenRefused) or hand out a    *)
(* queue (WorkerOpen); queue.get() waits for a frame or raises.            *)
(***************************************************************************)
EXTENDS Integers, Sequences, FiniteSets, TLC

\* ---------------------------------------------------------------- bounds
MaxFrames == 1          \* frames each device queue delivers at most

\* ------------------------------------------------------------ value sets
\* A frame is <<queue name, sequence number>>; the values below are tuples
\* of other lengths, so that any two of them can be compared.
None == <<"None">>      \* Python None
Unset == <<"unset">>    \* the attribute has never been assigned
Absent == <<"absent">>  \* a device queue holding no frame
NoReturn == <<>>        \* no call has completed yet
Raised(e) == <<"raised", e, "", "">>    \* the call raised exception e
NoStream == "None"      \* a node stored with no XLinkOut
NoAttr == ""            \* the if/elif chain assigns nothing

RgbHeights == {720, 1080, 2160}     \* rgb_size[1] values tried
Focals == {0, 2}                    \* M[0][0] of a sensor's intrinsics
BaselineValues == {0, 4, 5}         \* calibData.getBaselineDistance()

\* the threads that call compute_3d()
Callers == {"c1"}

\* values of the lock: who holds it
Free == <<>>
HeldByWorker == <<"worker">>
HeldByCaller(c) == <<"caller", c>>

VARIABLES
    cfg,            \* constructor arguments
    dev,            \* what the device's calibration holds
    obj,            \* "none" | "live" | "failed": outcome of OAK_Camera(...)
    ctor_err,       \* exception that left __init__, or "none"
    io,             \* set of device I/O operations performed so far
    self,           \* scalar attributes of the object set by __init__
    attrs,          \* the frame attributes of the object
    _stopped,       \* self._stopped
    _cam_thread,    \* "initial" | "alive" | "finished"
    _data_lock,     \* Free | HeldByWorker | HeldByCaller(c)
    _nodes,         \* self._nodes, in insertion order
    wpc,            \* position of the worker in _target
    queues,         \* the local dict queues of _target, in insertion order
    qi,             \* index in queues.items() of the queue being polled
    worker_err,     \* exception that left _target, or "none"
    iters,          \* completed iterations of the acquisition loop
    lastRecv,       \* per queue, the frame the loop got last
    devq,           \* device output queues (one slot each)
    produced,       \* per queue, frames delivered so far
    ctl_pc,         \* "ready" | "joining" | "joining_display"
    ctl_ret,        \* outcome of the controller's last completed call
    stop_returned,  \* some stop() has returned normally
    c3d_pc,         \* per caller: "idle" | "acquiring" | "locked"
    c3d_ret,        \* per caller: outcome of its last compute_3d()
    _display_thread,    \* "initial" | "alive" | "finished"
    _display_stopped,   \* self._display_stopped
    windows,        \* the cv2 windows the display loop has shown
    acc_ret         \* what the last accessor read returned

vars == <<cfg, dev, obj, ctor_err, io, self, attrs, _stopped, _cam_thread,
          _data_lock, _nodes, wpc, queues, qi, worker_err, iters, lastRecv, devq,
          produced, ctl_pc, ctl_ret, stop_returned, c3d_pc, c3d_ret,
          _display_thread, _display_stopped, windows, acc_ret>>

ctorVars == <<cfg, dev, obj, ctor_err, self>>
workerVars == <<_nodes, wpc, queues, qi, worker_err, iters, lastRecv>>
devVars == <<devq, produced>>
ctlVars == <<ctl_pc, ctl_ret, stop_returned>>
c3dVars == <<c3d_pc, c3d_ret>>
dispVars == <<_display_thread, _display_stopped, windows>>

\* the keys _create_cam_rgb and _create_stereo store in self._nodes
NodeKeys == {"color_camera", "stereo", "mono_left", "mono_right",
             "rectified_left", "rectified_right"}

\* device queues before any frame was delivered
NoFrames == [k \in NodeKeys |-> Absent]
NoneProduced == [k \in NodeKeys |-> 0]

\* ------------------------------------------------------------ frame slots
\* attributes created by __init__ (lines 89-94)
InitAttrNames == {"_rgb_frame", "_depth_frame", "_left_frame", "_right_frame",
                  "_rectified_left_frame", "_rectified_right_frame"}
\* attributes created only by an assignment in _target (lines 275-281)
LateAttrNames == {"_color_frame", "_disparity", "_left_rect_frame",
                  "_right_rect_frame"}
AttrNames == InitAttrNames \cup LateAttrNames

InitAttrs == [a \in AttrNames |-> IF a \in InitAttrNames THEN None ELSE Unset]

\* the public accessors (properties, lines 100-140)
rgb_frame == attrs["_rgb_frame"]
disparity == attrs["_depth_frame"]
left_frame == attrs["_left_frame"]
right_frame == attrs["_right_frame"]
rectified_left_frame == attrs["_rectified_left_frame"]
rectified_right_frame == attrs["_rectified_right_frame"]

\* ------------------------------------------------------------ calibration
Intrinsics(f) == <<<<f, 0, 1>>, <<0, f, 1>>, <<0, 0, 1>>>>

Det3(m) ==
    m[1][1] * (m[2][2] * m[3][3] - m[2][3] * m[3][2])
  - m[1][2] * (m[2][1] * m[3][3] - m[2][3] * m[3][1])
  + m[1][3] * (m[2][1] * m[3][2] - m[2][2] * m[3][1])

\* a rational number as <<numerator, denominator>>
Rat(n, d) == <<n, d>>

Abs(n) == IF n < 0 THEN -n ELSE n

RECURSIVE Gcd(_, _)
Gcd(a, b) == IF b = 0 THEN a ELSE Gcd(b, a % b)

\* equality of two fractions with positive denominators
RatEq(a, b) ==
    LET ga == Gcd(Abs(a[1]), a[2])
        gb == Gcd(Abs(b[1]), b[2])
    IN Rat(a[1] \div ga, a[2] \div ga) = Rat(b[1] \div gb, b[2] \div gb)

TwoTo23 == 8388608      \* 2^23: a float32 significand has 24 bits

\* <<a * 2^k, 2^k>> for the least k that brings a * 2^k / d up to 2^23
RECURSIVE Normalise(_, _, _)
Normalise(a, p, d) ==
    IF a >= TwoTo23 * d THEN <<a, p>> ELSE Normalise(2 * a, 2 * p, d)

\* integer nearest to a / d, ties to even
RoundDiv(a, d) ==
    LET q == a \div d
        r == a % d
    IN IF 2 * r > d THEN q + 1
       ELSE IF 2 * r < d THEN q
       ELSE q + (q % 2)

\* m / p in lowest terms, p a power of two
RECURSIVE Lowest(_, _)
Lowest(m, p) ==
    IF p > 1 /\ m % 2 = 0 THEN Lowest(m \div 2, p \div 2) ELSE Rat(m, p)

\* np.float32(x): the single-precision number nearest to the rational x
\* (for |x| < 2^24, the range of the values tried)
Float32(x) ==
    IF x[1] = 0 THEN Rat(0, 1)
    ELSE LET s == Normalise(Abs(x[1]), 1, x[2])
             m == RoundDiv(s[1], x[2])
         IN Lowest(IF x[1] < 0 THEN -m ELSE m, s[2])

\* BuildQ without the conversion to single precision
BuildQExact(M_left, baseline) ==
    LET f == M_left[1][1]
        cx == M_left[1][3]
        cy == M_left[2][3]
    IN <<<<Rat(1, 1), Rat(0, 1), Rat(0, 1), Rat(-cx, 1)>>,
         <<Rat(0, 1), Rat(1, 1), Rat(0, 1), Rat(-cy, 1)>>,
         <<Rat(0, 1), Rat(0, 1), Rat(0, 1), Rat(f, 1)>>,
         <<Rat(0, 1), Rat(0, 1), Rat(-1, baseline), Rat(0, 1)>>>>

\* the reprojection matrix of lines 70-77: np.float32 of the rows, whose
\* entries Python computes first (the double-precision -1.0 / baseline is
\* kept exact here)
BuildQ(M_left, baseline) ==
    LET f == M_left[1][1]
        cx == M_left[1][3]
        cy == M_left[2][3]
        rows == <<<<Rat(1, 1), Rat(0, 1), Rat(0, 1), Rat(-cx, 1)>>,
                  <<Rat(0, 1), Rat(1, 1), Rat(0, 1), Rat(-cy, 1)>>,
                  <<Rat(0, 1), Rat(0, 1), Rat(0, 1), Rat(f, 1)>>,
                  <<Rat(0, 1), Rat(0, 1), Rat(-1, baseline), Rat(0, 1)>>>>
    IN [i \in 1..4 |-> [j \in 1..4 |-> Float32(rows[i][j])]]

\* the exception that leaves __init__ for this device, or "none"
CtorOutcome(d) ==
    IF ~d.calibrated THEN "CalibrationUnavailable"
    ELSE IF Det3(Intrinsics(d.f_left)) = 0 THEN "LinAlgError"
    ELSE IF Det3(Intrinsics(d.f_right)) = 0 THEN "LinAlgError"
    ELSE IF d.baseline = 0 THEN "ZeroDivisionError"
    ELSE "none"

NoSelf == [rgb_height |-> Unset, Q |-> Unset]

\* OAK_Camera.__init__
Construct ==
    /\ obj = "none"
    /\ io' = io \cup {"calibration_open", "readCalibration"}
    /\ ctor_err' = CtorOutcome(dev)
    /\ IF CtorOutcome(dev) = "none"
         THEN /\ obj' = "live"
              /\ self' = [rgb_height |-> cfg.rgb_height,
                          Q |-> BuildQ(Intrinsics(dev.f_left), dev.baseline)]
         ELSE /\ obj' = "failed"
              /\ self' = NoSelf
    /\ UNCHANGED <<dispVars, acc_ret, cfg, dev, attrs, _stopped, _cam_thread, _data_lock,
                   workerVars, devVars, ctlVars, c3dVars>>

\* every constructor argument and device calibration tried
Configs == [rgb_height : RgbHeights]
Devices == [calibrated : BOOLEAN, f_left : Focals, f_right : Focals,
            baseline : BaselineValues]

\* the configuration the acquisition runs are explored with: the default
\* rgb_size and one calibrated device
RunConfigs == {c \in Configs : c.rgb_height = 1080}
RunDevices == {d \in Devices : CtorOutcome(d) = "none" /\ d.baseline = 5}

\* the state before OAK_Camera(...) is called
InitFrom(cs, ds) ==
    /\ cfg \in cs
    /\ dev \in ds
    /\ obj = "none"
    /\ ctor_err = "none"
    /\ io = {}
    /\ self = NoSelf
    /\ attrs = InitAttrs
    /\ _stopped = FALSE
    /\ _cam_thread = "initial"
    /\ _data_lock = Free
    /\ _nodes = <<>>
    /\ wpc = "unstarted"
    /\ queues = <<>>
    /\ qi = 0
    /\ worker_err = "none"
    /\ iters = 0
    /\ lastRecv = [k \in NodeKeys |-> Absent]
    /\ devq = NoFrames
    /\ produced = NoneProduced
    /\ ctl_pc = "ready"
    /\ ctl_ret = "none"
    /\ stop_returned = FALSE
    /\ c3d_pc = [c \in Callers |-> "idle"]
    /\ c3d_ret = [c \in Callers |-> NoReturn]
    /\ _display_thread = "initial"
    /\ _display_stopped = FALSE
    /\ windows = {}
    /\ acc_ret = NoReturn

Init == InitFrom(RunConfigs, RunDevices)

InitBuild == InitFrom(Configs, Devices)

\* ------------------------------------------------------------ controller
\* OAK_Camera.start: Thread.start() raises on a thread started before
\* start() written to make a fresh thread when the old one has ended
StartRestarts ==
    /\ obj = "live"
    /\ ctl_pc = "ready"
    /\ IF _cam_thread = "initial" \/ _cam_thread = "finished"
         THEN /\ _cam_thread' = "alive"
              /\ wpc' = "build"
              /\ ctl_ret' = "ok"
         ELSE /\ ctl_ret' = "RuntimeError"
              /\ UNCHANGED <<_cam_thread, wpc>>
    /\ UNCHANGED <<dispVars, acc_ret, ctorVars, io, attrs, _stopped, _data_lock, _nodes, queues,
                   qi, worker_err, iters, lastRecv, devVars, ctl_pc,
                   stop_returned, c3dVars>>

Start ==
    /\ obj = "live"
    /\ ctl_pc = "ready"
    /\ IF _cam_thread = "initial"
         THEN /\ _cam_thread' = "alive"
              /\ wpc' = "build"
              /\ ctl_ret' = "ok"
         ELSE /\ ctl_ret' = "RuntimeError"
              /\ UNCHANGED <<_cam_thread, wpc>>
    /\ UNCHANGED <<dispVars, acc_ret, ctorVars, io, attrs, _stopped, _data_lock, _nodes, queues,
                   qi, worker_err, iters, lastRecv, devVars, ctl_pc,
                   stop_returned, c3dVars>>

\* stop() written to flip the flag instead of setting it
StopTogglesFlag ==
    /\ obj = "live"
    /\ ctl_pc = "ready"
    /\ _stopped' = ~_stopped
    /\ IF _cam_thread = "initial"
         THEN /\ ctl_ret' = "RuntimeError"
              /\ UNCHANGED ctl_pc
         ELSE /\ ctl_pc' = "joining"
              /\ UNCHANGED ctl_ret
    /\ UNCHANGED <<dispVars, acc_ret, ctorVars, io, attrs, _cam_thread, _data_lock, workerVars,
                   devVars, stop_returned, c3dVars>>

\* OAK_Camera.stop up to the point where join() waits; Thread.join() raises
\* on a thread that was never started
Stop ==
    /\ obj = "live"
    /\ ctl_pc = "ready"
    /\ _stopped' = TRUE
    /\ IF _cam_thread = "initial"
         THEN /\ ctl_ret' = "RuntimeError"
              /\ UNCHANGED ctl_pc
         ELSE /\ ctl_pc' = "joining"
              /\ UNCHANGED ctl_ret
    /\ UNCHANGED <<dispVars, acc_ret, ctorVars, io, attrs, _cam_thread, _data_lock, workerVars,
                   devVars, stop_returned, c3dVars>>

\* self._cam_thread.join() returns once the worker has terminated
JoinReturn ==
    /\ ctl_pc = "joining"
    /\ _cam_thread = "finished"
    /\ ctl_pc' = "ready"
    /\ ctl_ret' = "ok"
    /\ stop_returned' = TRUE
    /\ UNCHANGED <<dispVars, acc_ret, ctorVars, io, attrs, _stopped, _cam_thread, _data_lock,
                   workerVars, devVars, c3dVars>>

\* ---------------------------------------------------------------- worker
Node(key, xout) == [key |-> key, xout |-> xout]

\* _create_cam_rgb: the exception it raises for this height, or "none"
CreateCamRgbOutcome(h) ==
    IF h = 1080 THEN "none"
    ELSE IF h = 2160 THEN "none"
    ELSE "NotImplementedError"

CamRgbNodes == <<Node("color_camera", "color_camera")>>

StereoNodes == <<Node("stereo", "disparity"),
                 Node("mono_left", NoStream),
                 Node("mono_right", NoStream),
                 Node("rectified_left", "rectified_left"),
                 Node("rectified_right", "rectified_right")>>

\* the stream names the pipeline's XLinkOut nodes were given
DeclaredStreams(nodes) ==
    {nodes[i].xout : i \in 1..Len(nodes)} \ {NoStream}

\* the names _target passes to device.getOutputQueue
RequestedQueues(nodes) == [i \in 1..Len(nodes) |-> nodes[i].key]

\* an exception leaves _target: the thread ends
Crash(err) ==
    /\ worker_err' = err
    /\ wpc' = "crashed"
    /\ _cam_thread' = "finished"

\* leaving "with dai.Device(...)" closes the device and its queues
CloseDevice ==
    /\ devq' = NoFrames
    /\ produced' = NoneProduced

\* _target, lines 258-259
WorkerBuild ==
    /\ wpc = "build"
    /\ IF CreateCamRgbOutcome(self.rgb_height) = "none"
         THEN /\ _nodes' = _nodes \o CamRgbNodes \o StereoNodes
              /\ wpc' = "open"
              /\ UNCHANGED <<worker_err, _cam_thread>>
         ELSE /\ Crash(CreateCamRgbOutcome(self.rgb_height))
              /\ UNCHANGED _nodes
    /\ UNCHANGED <<dispVars, acc_ret, ctorVars, io, attrs, _stopped, _data_lock, queues, qi,
                   iters, lastRecv, devVars, ctlVars, c3dVars>>

\* _target, lines 260-266, the device handing out every queue asked for
WorkerOpen ==
    /\ wpc = "open"
    /\ io' = io \cup {"pipeline_open", "getOutputQueue"}
    /\ queues' = RequestedQueues(_nodes)
    /\ wpc' = "test"
    /\ UNCHANGED <<dispVars, acc_ret, ctorVars, attrs, _stopped, _cam_thread, _data_lock, _nodes,
                   qi, worker_err, iters, lastRecv, devVars, ctlVars, c3dVars>>

\* _target, lines 260-266, the device refusing a name no stream has
WorkerOpenRefused ==
    /\ wpc = "open"
    /\ \E i \in 1..Len(_nodes) : _nodes[i].key \notin DeclaredStreams(_nodes)
    /\ io' = io \cup {"pipeline_open", "getOutputQueue"}
    /\ Crash("RuntimeError")
    /\ CloseDevice
    /\ UNCHANGED <<dispVars, acc_ret, ctorVars, attrs, _stopped, _data_lock, _nodes, queues, qi,
                   iters, lastRecv, ctlVars, c3dVars>>

\* while not self._stopped (line 269); leaving the loop closes the device
WorkerTest ==
    /\ wpc = "test"
    /\ IF _stopped
         THEN /\ wpc' = "done"
              /\ _cam_thread' = "finished"
              /\ CloseDevice
         ELSE /\ wpc' = "acquire"
              /\ UNCHANGED <<_cam_thread, devVars>>
    /\ UNCHANGED <<dispVars, acc_ret, ctorVars, io, attrs, _stopped, _data_lock, _nodes, queues,
                   qi, worker_err, iters, lastRecv, ctlVars, c3dVars>>

\* with self._data_lock (line 270)
WorkerAcquire ==
    /\ wpc = "acquire"
    /\ _data_lock = Free
    /\ _data_lock' = HeldByWorker
    /\ wpc' = "poll"
    /\ qi' = 1
    /\ UNCHANGED <<dispVars, acc_ret, ctorVars, io, attrs, _stopped, _cam_thread, _nodes, queues,
                   worker_err, iters, lastRecv, devVars, ctlVars, c3dVars>>

\* the if/elif chain of lines 274-285
RouteAttr(name) ==
    IF name = "color_camera" THEN "_color_frame"
    ELSE IF name = "disparity" THEN "_disparity"
    ELSE IF name = "rectified_left" THEN "_left_rect_frame"
    ELSE IF name = "rectified_right" THEN "_right_rect_frame"
    ELSE IF name = "mono_left" THEN "_left_frame"
    ELSE IF name = "mono_right" THEN "_right_frame"
    ELSE NoAttr

Route(a, name, data) ==
    IF RouteAttr(name) = NoAttr THEN a
    ELSE [a EXCEPT ![RouteAttr(name)] = data]

\* one pass of the for loop body (lines 271-285): queue.get() waits for a
\* frame; after the last queue the with block ends and the lock is released
\* the loop written to test the flag between two queues as well
WorkerGetBreaksOnStop ==
    /\ wpc = "poll"
    /\ IF _stopped
         THEN /\ wpc' = "done"
              /\ _cam_thread' = "finished"
              /\ _data_lock' = Free
              /\ CloseDevice
              /\ UNCHANGED <<attrs, lastRecv, qi, iters>>
         ELSE /\ devq[queues[qi]] # Absent
              /\ attrs' = Route(attrs, queues[qi], devq[queues[qi]])
              /\ lastRecv' = [lastRecv EXCEPT ![queues[qi]] = devq[queues[qi]]]
              /\ devq' = [devq EXCEPT ![queues[qi]] = Absent]
              /\ IF qi = Len(queues)
                   THEN /\ qi' = 0
                        /\ wpc' = "test"
                        /\ iters' = iters + 1
                        /\ _data_lock' = Free
                   ELSE /\ qi' = qi + 1
                        /\ UNCHANGED <<wpc, iters, _data_lock>>
              /\ UNCHANGED <<_cam_thread, produced>>
    /\ UNCHANGED <<dispVars, acc_ret, ctorVars, io, _stopped, _nodes, queues, worker_err,
                   ctlVars, c3dVars>>

WorkerGet ==
    /\ wpc = "poll"
    /\ devq[queues[qi]] # Absent
    /\ attrs' = Route(attrs, queues[qi], devq[queues[qi]])
    /\ lastRecv' = [lastRecv EXCEPT ![queues[qi]] = devq[queues[qi]]]
    /\ devq' = [devq EXCEPT ![queues[qi]] = Absent]
    /\ IF qi = Len(queues)
         THEN /\ qi' = 0
              /\ wpc' = "test"
              /\ iters' = iters + 1
              /\ _data_lock' = Free
         ELSE /\ qi' = qi + 1
              /\ UNCHANGED <<wpc, iters, _data_lock>>
    /\ UNCHANGED <<dispVars, acc_ret, ctorVars, io, _stopped, _cam_thread, _nodes, queues,
                   worker_err, produced, ctlVars, c3dVars>>

ReadErrors == {"ReadFailure", "DeviceLost"}

\* the loop written with acquire()/release() around the iteration instead
\* of a with block: an exception leaves the lock held
WorkerGetRaisesKeepsLock ==
    /\ wpc = "poll"
    /\ \E err \in ReadErrors : Crash(err)
    /\ CloseDevice
    /\ UNCHANGED <<dispVars, acc_ret, ctorVars, io, attrs, _stopped, _data_lock, _nodes, queues,
                   qi, iters, lastRecv, ctlVars, c3dVars>>

\* queue.get() raising: nothing in _target catches it, the with blocks
\* release the lock and close the device, and the thread ends
WorkerGetRaises ==
    /\ wpc = "poll"
    /\ \E err \in ReadErrors : Crash(err)
    /\ _data_lock' = Free
    /\ CloseDevice
    /\ UNCHANGED <<dispVars, acc_ret, ctorVars, io, attrs, _stopped, _nodes, queues, qi, iters,
                   lastRecv, ctlVars, c3dVars>>

\* ---------------------------------------------------------------- device
DeviceRunning == wpc \in {"test", "acquire", "poll"}

\* the device puts a frame on an output queue (maxSize=1, blocking=False:
\* a frame still in the queue is replaced)
Arrive(k) ==
    /\ DeviceRunning
    /\ \E i \in 1..Len(queues) : queues[i] = k
    /\ produced[k] < MaxFrames
    /\ produced' = [produced EXCEPT ![k] = produced[k] + 1]
    /\ devq' = [devq EXCEPT ![k] = <<k, produced[k] + 1>>]
    /\ UNCHANGED <<dispVars, acc_ret, ctorVars, io, attrs, _stopped, _cam_thread, _data_lock,
                   workerVars, ctlVars, c3dVars>>

\* ------------------------------------------------------------ compute_3d
NotReady == <<None, None, None>>

\* cv2.reprojectImageTo3D(disparity, Q)
Reproject(disp, Q) == <<"img3d", disp, Q, "", "">>

\* lines 294-299: what the call returns or raises
Compute3d(a, Q) ==
    IF a["_disparity"] = Unset THEN Raised("AttributeError")
    ELSE IF a["_disparity"] = None \/ a["_rectified_left_frame"] = None
         THEN NotReady
    ELSE <<Reproject(a["_disparity"], Q), a["_disparity"],
           a["_rectified_left_frame"]>>

C3dCall(c) ==
    /\ obj = "live"
    /\ c3d_pc[c] = "idle"
    /\ c3d_pc' = [c3d_pc EXCEPT ![c] = "acquiring"]
    /\ UNCHANGED <<dispVars, acc_ret, ctorVars, io, attrs, _stopped, _cam_thread, _data_lock,
                   workerVars, devVars, ctlVars, c3d_ret>>

\* with self._data_lock (line 293)
C3dAcquire(c) ==
    /\ c3d_pc[c] = "acquiring"
    /\ _data_lock = Free
    /\ _data_lock' = HeldByCaller(c)
    /\ c3d_pc' = [c3d_pc EXCEPT ![c] = "locked"]
    /\ UNCHANGED <<dispVars, acc_ret, ctorVars, io, attrs, _stopped, _cam_thread, workerVars,
                   devVars, ctlVars, c3d_ret>>

\* compute_3d written with acquire()/release(): the release is skipped when
\* the body raises
C3dBodyKeepsLock(c) ==
    /\ c3d_pc[c] = "locked"
    /\ c3d_ret' = [c3d_ret EXCEPT ![c] = Compute3d(attrs, self.Q)]
    /\ _data_lock' = IF Compute3d(attrs, self.Q) = Raised("AttributeError")
                       THEN _data_lock ELSE Free
    /\ c3d_pc' = [c3d_pc EXCEPT ![c] = "idle"]
    /\ UNCHANGED <<dispVars, acc_ret, ctorVars, io, attrs, _stopped, _cam_thread, workerVars,
                   devVars, ctlVars>>

\* lines 294-299; the with block releases the lock on every way out
C3dBody(c) ==
    /\ c3d_pc[c] = "locked"
    /\ c3d_ret' = [c3d_ret EXCEPT ![c] = Compute3d(attrs, self.Q)]
    /\ _data_lock' = Free
    /\ c3d_pc' = [c3d_pc EXCEPT ![c] = "idle"]
    /\ UNCHANGED <<dispVars, acc_ret, ctorVars, io, attrs, _stopped, _cam_thread, workerVars,
                   devVars, ctlVars>>

\* --------------------------------------------------------------- display
\* the window _display shows each attribute in (lines 157-168)
WindowOf(a) ==
    IF a = "_rgb_frame" THEN "rgb"
    ELSE IF a = "_depth_frame" THEN "depth"
    ELSE IF a = "_left_frame" THEN "left"
    ELSE IF a = "_right_frame" THEN "right"
    ELSE IF a = "_rectified_left_frame" THEN "rectified left"
    ELSE "rectified right"

\* the windows one pass of the display loop shows
Shown(a) == {WindowOf(n) : n \in {x \in InitAttrNames : a[x] # None}}

\* start_display(): Thread.start() raises RuntimeError on a second call
StartDisplay ==
    /\ obj = "live"
    /\ ctl_pc = "ready"
    /\ IF _display_thread = "initial"
         THEN /\ _display_thread' = "alive"
              /\ ctl_ret' = "ok"
         ELSE /\ ctl_ret' = "RuntimeError"
              /\ UNCHANGED _display_thread
    /\ UNCHANGED <<ctorVars, io, attrs, _stopped, _cam_thread, _data_lock,
                   workerVars, devVars, ctl_pc, stop_returned, c3dVars,
                   _display_stopped, windows, acc_ret>>

\* stop_display(): sets the flag, then join() raises RuntimeError on a
\* thread never started and waits for one that was
StopDisplay ==
    /\ obj = "live"
    /\ ctl_pc = "ready"
    /\ _display_stopped' = TRUE
    /\ IF _display_thread = "initial"
         THEN /\ ctl_ret' = "RuntimeError"
              /\ UNCHANGED ctl_pc
         ELSE /\ ctl_pc' = "joining_display"
              /\ UNCHANGED ctl_ret
    /\ UNCHANGED <<ctorVars, io, attrs, _stopped, _cam_thread, _data_lock,
                   workerVars, devVars, stop_returned, c3dVars,
                   _display_thread, windows, acc_ret>>

\* self._display_thread.join() returns once the display thread has ended
JoinDisplayReturn ==
    /\ ctl_pc = "joining_display"
    /\ _display_thread = "finished"
    /\ ctl_pc' = "ready"
    /\ ctl_ret' = "ok"
    /\ UNCHANGED <<ctorVars, io, attrs, _stopped, _cam_thread, _data_lock,
                   workerVars, devVars, stop_returned, c3dVars, dispVars, acc_ret>>

\* the display loop written to take each frame off its slot once shown
DisplayConsumes ==
    /\ _display_thread = "alive"
    /\ IF _display_stopped
         THEN /\ _display_thread' = "finished"
              /\ UNCHANGED <<windows, attrs>>
         ELSE /\ windows' = windows \cup Shown(attrs)
              /\ attrs' = [a \in AttrNames |->
                              IF a \in InitAttrNames THEN None ELSE attrs[a]]
              /\ UNCHANGED _display_thread
    /\ UNCHANGED <<ctorVars, io, _stopped, _cam_thread, _data_lock,
                   workerVars, devVars, ctlVars, c3dVars, _display_stopped, acc_ret>>

\* _display: the test of the flag and one pass of the loop body, which reads
\* the six slots without the lock and shows those that hold a frame
Display ==
    /\ _display_thread = "alive"
    /\ IF _display_stopped
         THEN /\ _display_thread' = "finished"
              /\ UNCHANGED windows
         ELSE /\ windows' = windows \cup Shown(attrs)
              /\ UNCHANGED _display_thread
    /\ UNCHANGED <<ctorVars, io, attrs, _stopped, _cam_thread, _data_lock,
                   workerVars, devVars, ctlVars, c3dVars, _display_stopped, acc_ret>>

Next ==
    \/ Construct
    \/ Start
    \/ Stop
    \/ JoinReturn
    \/ WorkerBuild
    \/ WorkerOpen
    \/ WorkerOpenRefused
    \/ WorkerTest
    \/ WorkerAcquire
    \/ WorkerGet
    \/ WorkerGetRaises
    \/ \E k \in NodeKeys : Arrive(k)
    \/ \E c \in Callers : C3dCall(c)
    \/ \E c \in Callers : C3dAcquire(c)
    \/ \E c \in Callers : C3dBody(c)

\* construction and pipeline build, for every configuration and device
NextBuild ==
    \/ Construct
    \/ Start
    \/ Stop
    \/ JoinReturn
    \/ WorkerBuild
    \/ WorkerOpen
    \/ WorkerOpenRefused
    \/ \E c \in Callers : C3dCall(c)
    \/ \E c \in Callers : C3dAcquire(c)
    \/ \E c \in Callers : C3dBody(c)

\* the six properties of lines 100-140, in the order they are written
Accessors == <<rgb_frame, disparity, left_frame, right_frame,
               rectified_left_frame, rectified_right_frame>>

\* some thread reads one of the properties
ReadAccessor(i) ==
    /\ obj = "live"
    /\ acc_ret' = Accessors[i]
    /\ UNCHANGED <<ctorVars, io, attrs, _stopped, _cam_thread, _data_lock,
                   workerVars, devVars, ctlVars, c3dVars, dispVars>>

\* a device that delivers a frame only to the queue the loop is waiting on
ArriveWhenPolled(k) ==
    /\ wpc = "poll"
    /\ queues[qi] = k
    /\ devq[k] = Absent
    /\ Arrive(k)

\* every operation of the object, the display thread included, with that
\* device
NextDisplay ==
    \/ Construct
    \/ Start
    \/ Stop
    \/ JoinReturn
    \/ WorkerBuild
    \/ WorkerOpen
    \/ WorkerOpenRefused
    \/ WorkerTest
    \/ WorkerAcquire
    \/ WorkerGet
    \/ WorkerGetRaises
    \/ \E k \in NodeKeys : ArriveWhenPolled(k)
    \/ \E c \in Callers : C3dCall(c)
    \/ \E c \in Callers : C3dAcquire(c)
    \/ \E c \in Callers : C3dBody(c)
    \/ StartDisplay
    \/ StopDisplay
    \/ JoinDisplayReturn
    \/ Display
    \/ \E i \in DOMAIN Accessors : ReadAccessor(i)

Spec == Init /\ [][Next]_vars

SpecDisplay == Init /\ [][NextDisplay]_vars

SpecBuild == InitBuild /\ [][NextBuild]_vars

\* scheduling: a thread that can take a step takes it; a thread waiting for
\* the lock gets it when it is free again and again; the device and the
\* controller's calls are under no obligation
Fairness ==
    /\ WF_vars(WorkerBuild)
    /\ WF_vars(WorkerOpen \/ WorkerOpenRefused)
    /\ WF_vars(WorkerTest)
    /\ SF_vars(WorkerAcquire)
    /\ WF_vars(WorkerGet)
    /\ WF_vars(JoinReturn)
    /\ \A c \in Callers : SF_vars(C3dAcquire(c)) /\ WF_vars(C3dBody(c))

FairSpec == Spec /\ Fairness

\* ================================================================ claims

\* the queue whose frames each public accessor is meant to show
Accessor(k) ==
    CASE k = "color_camera" -> rgb_frame
      [] k = "stereo" -> disparity
      [] k = "mono_left" -> left_frame
      [] k = "mono_right" -> right_frame
      [] k = "rectified_left" -> rectified_left_frame
      [] k = "rectified_right" -> rectified_right_frame

\* the worker runs and the device has delivered nothing yet
NoFrameYet == _cam_thread = "alive" /\ \A k \in NodeKeys : produced[k] = 0

\* caller c leaves compute_3d in this step
Returns(c) == c3d_pc[c] = "locked" /\ c3d_pc'[c] = "idle"

\* C2 (as claimed): after start and before any frame has arrived, all six
\* accessors return None and a compute_3d() call returns the NotReady value
\* instead of raising.
C2_NotReadyBeforeFirstFrame ==
    [][NoFrameYet =>
        /\ \A k \in NodeKeys : Accessor(k) = None
        /\ \A c \in Callers : Returns(c) => c3d_ret'[c] = NotReady]_vars

\* C3 (as claimed): once the loop has received a frame from a stream's
\* queue, the stream's accessor returns the frame received last.
C3_AccessorShowsLastFrame ==
    \A k \in NodeKeys : lastRecv[k] # Absent => Accessor(k) = lastRecv[k]

\* C4 (as claimed): once an iteration that received a disparity and a
\* rectified-left frame has completed, every compute_3d() call returns a
\* triple (cloud, disparity, left) holding the frames of the two slots.
C4_TripleAfterFirstIteration ==
    [][\A c \in Callers : (iters >= 1 /\ Returns(c)) =>
        /\ c3d_ret'[c] # Raised("AttributeError")
        /\ c3d_ret'[c] # NotReady
        /\ c3d_ret'[c][2] = lastRecv["stereo"]
        /\ c3d_ret'[c][3] = lastRecv["rectified_left"]]_vars

\* some thread of the program can take a step without the device doing
\* anything first
ProgramCanStep ==
    \/ ENABLED WorkerBuild
    \/ ENABLED WorkerOpen
    \/ ENABLED WorkerTest
    \/ ENABLED WorkerAcquire
    \/ ENABLED WorkerGet
    \/ \E c \in Callers : ENABLED C3dAcquire(c) \/ ENABLED C3dBody(c)

\* C5 (as claimed): stop followed by join never hangs: while stop() waits in
\* join(), the worker has terminated or the program can move on by itself,
\* whether or not the device delivers another frame.
C5_StopJoinNeverHangs ==
    ctl_pc = "joining" => (_cam_thread = "finished" \/ ProgramCanStep)

SupportedHeights == {1080, 2160}

\* the worker is past _create_cam_rgb / _create_stereo
BuildAttempted == wpc \notin {"unstarted", "build"}

\* C6 (as claimed): the build succeeds for rgb heights 1080 and 2160, and for
\* any other height it fails with the resolution error before any device I/O
\* (the calibration read included) has happened.
C6_ResolutionCheckedBeforeIO ==
    BuildAttempted =>
        IF self.rgb_height \in SupportedHeights
          THEN _nodes # <<>> /\ worker_err # "NotImplementedError"
          ELSE worker_err = "NotImplementedError" /\ io = {}

\* a condition the specification lists as an initialization failure
InitFailure(c, d) ==
    \/ ~d.calibrated
    \/ Det3(Intrinsics(d.f_left)) = 0
    \/ Det3(Intrinsics(d.f_right)) = 0
    \/ c.rgb_height \notin SupportedHeights

\* C7 (as claimed): whenever the configuration or device has an
\* initialization failure, the constructor fails and no camera object is
\* handed to the caller.
C7_InitFailureAbortsConstruction ==
    InitFailure(cfg, dev) => obj # "live"

\* a stop() call after an earlier stop() returned: its two steps
LaterStopStep == stop_returned /\ ctl_pc' # ctl_pc

\* C8: on a started camera a stop() after a stop() that returned completes
\* without error (the join finds the worker terminated) and leaves the stop
\* flag set, the worker terminated and every frame attribute as it was.
C8_StopIdempotent ==
    [][LaterStopStep =>
        /\ _stopped'
        /\ _cam_thread' = "finished"
        /\ wpc' = wpc
        /\ attrs' = attrs
        /\ (ctl_pc' = "ready" => ctl_ret' = "ok")]_vars

\* C8 witness: stop() has returned once and a later stop() is in its join
C8_Witness == stop_returned /\ ctl_pc = "joining" /\ _stopped

\* C9 (as claimed): when the device is lost during the loop, the loop ends
\* and the controller sees the DeviceLost condition when its join returns.
C9_DeviceLostSurfaced ==
    [][(worker_err' = "DeviceLost") =>
        /\ wpc' = "crashed"
        /\ (ctl_pc = "joining" /\ ctl_pc' = "ready"
              => ctl_ret' = "DeviceLost")]_vars

\* C10 (as claimed): a transient read failure on one queue does not end the
\* acquisition loop.
C10_ReadFailureNotFatal ==
    worker_err = "ReadFailure" => _cam_thread = "alive"

\* the worker holds the lock and waits in queue.get() on an empty queue
WorkerWaitsForFrame == wpc = "poll" /\ devq[queues[qi]] = Absent

\* C11 (as claimed): every queue is polled without waiting: when the queue
\* being polled has no frame ready the worker still goes on (to the queues
\* that have one, and to the end of the iteration where the lock is freed).
C11_PollDoesNotWait == wpc = "poll" => ENABLED WorkerGet

\* C12 (as claimed): a compute_3d() call waits only for the lock-protected
\* snapshot: whenever a call waits for the lock, the holder can finish with
\* it without the device delivering another frame.
C12_Compute3dNotBlockedByDevice ==
    \A c \in Callers :
        c3d_pc[c] = "acquiring" => (_data_lock = Free \/ ~WorkerWaitsForFrame)

InLoop == wpc \in {"test", "acquire", "poll"}

LeavesLoop == InLoop /\ ~InLoop'

Names(seq) == {seq[i] : i \in 1..Len(seq)}

\* C15: the queues the worker asks the device for are the declared
\* streams, and each of them is routed to a slot.
C15_QueuesAreDeclaredStreams ==
    "getOutputQueue" \in io =>
        /\ Names(RequestedQueues(_nodes)) = DeclaredStreams(_nodes)
        /\ \A n \in DeclaredStreams(_nodes) : RouteAttr(n) # NoAttr

C18_EarlyStopChangesNothing ==
    [][(Stop /\ _cam_thread = "initial")
          => (ctl_ret' = "RuntimeError" /\ _stopped' = _stopped)]_vars

\* C19: a terminated worker does not hold the lock, so a compute_3d call
\* waiting for the lock after the worker's end can take it.
C19_NoLockHeldByDeadWorker ==
    _cam_thread = "finished" =>
        /\ _data_lock # HeldByWorker
        /\ \A c \in Callers : c3d_pc[c] = "acquiring" => ENABLED C3dAcquire(c)

\* C19 witness: the worker died of an error inside an iteration, where it
\* held the lock, and a compute_3d call has taken the lock since
C19_Witness ==
    /\ wpc = "crashed"
    /\ worker_err \in ReadErrors
    /\ \E c \in Callers : _data_lock = HeldByCaller(c)

\* C20: start() on a thread already started fails and changes nothing of
\* the worker; a worker that has ended never runs again.
C20_SingleWorker ==
    [][/\ (Start /\ _cam_thread # "initial")
            => (ctl_ret' = "RuntimeError" /\ UNCHANGED <<workerVars, _cam_thread, attrs>>)
       /\ _cam_thread = "finished"
            => (_cam_thread' = "finished" /\ wpc' = wpc /\ attrs' = attrs)]_vars

\* C20 witness: a second start() was refused after stop() had returned
C20_Witness ==
    /\ stop_returned
    /\ ctl_pc = "ready"
    /\ ctl_ret = "RuntimeError"
    /\ _cam_thread = "finished"

\* an acquisition-loop iteration stores the frame it took off a queue
LoopStores ==
    /\ wpc = "poll"
    /\ _data_lock = HeldByWorker
    /\ devq[queues[qi]] # Absent
    /\ attrs' = Route(attrs, queues[qi], devq[queues[qi]])

\* C16: a frame slot changes only in a step of an acquisition-loop
\* iteration; the accessors, compute_3d, the display loop, start, stop,
\* start_display and stop_display leave every slot as it is.
C16_SingleWriter ==
    [][/\ attrs' # attrs => LoopStores
       /\ (Start \/ Stop \/ JoinReturn \/ StartDisplay \/ StopDisplay
            \/ JoinDisplayReturn \/ Display
            \/ \E i \in DOMAIN Accessors : ReadAccessor(i)
            \/ \E c \in Callers : C3dCall(c) \/ C3dAcquire(c) \/ C3dBody(c))
           => /\ attrs' = attrs
              /\ \A k \in NodeKeys : Accessor(k)' = Accessor(k)]_vars

\* C16 witness: the loop has stored a frame in a slot that an accessor has
\* returned and the display loop has shown, and a compute_3d call is over
C16_Witness ==
    /\ attrs["_left_frame"] # None
    /\ acc_ret = attrs["_left_frame"]
    /\ "left" \in windows
    /\ \E c \in Callers : c3d_ret[c] # NoReturn
====
